---- MODULE Spec2Model ----
(***************************************************************************)
(* healthy-monitor (src/src/main.rs): one run of the ambient-light display *)
(* controller.  main tries the webcam estimator, falls back to the         *)
(* location + weather services, and applies brightness and a time-of-day   *)
(* colour temperature to every monitor through xrandr.                     *)
(*                                                                         *)
(* f64 values are modelled as exact fractions [n, d] with d > 0, extended  *)
(* by the IEEE-754 specials the code can produce: NaN ([0, 0]) and the     *)
(* infinities ([1, 0], [-1, 0]).  Rounding of finite results and the sign  *)
(* of zero are not modelled.                                               *)
(***************************************************************************)
EXTENDS Integers, Sequences, FiniteSets, TLC

(* ------------------------------ bounds --------------------------------- *)
\* longest explicit --monitors list
MaxMonitors == 2
\* pixels of the decoded raster (the deployment's 640x480 raster, scaled down)
MaxPixels == 2
\* epoch seconds of sunrise, sunset and the clock range over 0..MaxTime
MaxTime == 2
\* lines printed by xrandr --listmonitors after the first one
MaxLines == 1

(* --------------------------- f64 arithmetic ---------------------------- *)
Abs(i) == IF i < 0 THEN -i ELSE i

Sgn(i) == IF i < 0 THEN -1 ELSE IF i > 0 THEN 1 ELSE 0

RECURSIVE Gcd(_, _)
Gcd(a, b) == IF b = 0 THEN a ELSE Gcd(b, a % b)

NaN == [n |-> 0, d |-> 0]

Inf(s) == [n |-> s, d |-> 0]

\* the fraction n/d (d # 0) in lowest terms with a positive denominator
Rat(n, d) ==
  LET g == Gcd(Abs(n), Abs(d))
  IN  [n |-> Sgn(d) * (n \div g), d |-> Abs(d) \div g]

F(i) == Rat(i, 1)

IsNaN(x) == x.d = 0 /\ x.n = 0

IsFinite(x) == x.d > 0

FNeg(x) == [n |-> -x.n, d |-> x.d]

FAdd(x, y) ==
  IF IsNaN(x) \/ IsNaN(y) THEN NaN
  ELSE IF IsFinite(x) /\ IsFinite(y) THEN Rat(x.n * y.d + y.n * x.d, x.d * y.d)
  ELSE IF IsFinite(x) THEN y
  ELSE IF IsFinite(y) THEN x
  ELSE IF x.n = y.n THEN x ELSE NaN

FSub(x, y) == FAdd(x, FNeg(y))

FMul(x, y) ==
  IF IsNaN(x) \/ IsNaN(y) THEN NaN
  ELSE IF IsFinite(x) /\ IsFinite(y) THEN Rat(x.n * y.n, x.d * y.d)
  ELSE IF x.n = 0 \/ y.n = 0 THEN NaN
  ELSE Inf(Sgn(x.n) * Sgn(y.n))

FDiv(x, y) ==
  IF IsNaN(x) \/ IsNaN(y) THEN NaN
  ELSE IF IsFinite(x) /\ IsFinite(y)
    THEN IF y.n # 0 THEN Rat(x.n * y.d, x.d * y.n)
         ELSE IF x.n = 0 THEN NaN ELSE Inf(Sgn(x.n))
  ELSE IF IsFinite(x) THEN F(0)
  ELSE IF IsFinite(y) THEN Inf(Sgn(x.n) * (IF y.n < 0 THEN -1 ELSE 1))
  ELSE NaN

\* every comparison with NaN is false
FLt(x, y) ==
  IF IsNaN(x) \/ IsNaN(y) THEN FALSE
  ELSE IF IsFinite(x) /\ IsFinite(y) THEN x.n * y.d < y.n * x.d
  ELSE IF IsFinite(x) THEN y.n > 0
  ELSE IF IsFinite(y) THEN x.n < 0
  ELSE x.n < y.n

FLe(x, y) == ~IsNaN(x) /\ ~IsNaN(y) /\ ~FLt(y, x)

FGe(x, y) == FLe(y, x)

\* f64::clamp: NaN stays NaN
FClamp(x, lo, hi) ==
  IF IsNaN(x) THEN NaN
  ELSE IF FLt(x, lo) THEN lo
  ELSE IF FLt(hi, x) THEN hi
  ELSE x

(* ------------------------------ options -------------------------------- *)
None == <<>>

Some(x) == <<x>>

(* ----------------------- compute_brightness ---------------------------- *)
\* lines 129-157; now_ts is the value Utc::now().timestamp() returned
compute_brightness(weather, min_brightness, now_ts) ==
  LET sunrise == weather.sunrise
      sunset == weather.sunset
      cloud_cover == weather.all
  IN  IF now_ts < sunrise \/ now_ts > sunset THEN min_brightness
      ELSE
        LET day_length == F(sunset - sunrise)
            time_since_sunrise == F(now_ts - sunrise)
            fraction_of_day ==
              FClamp(FDiv(time_since_sunrise, day_length), F(0), F(1))
            midday_bump ==
              IF FLe(fraction_of_day, Rat(1, 2))
                THEN FMul(fraction_of_day, F(2))
                ELSE FMul(FSub(F(1), fraction_of_day), F(2))
            cloud_factor == FSub(F(1), FDiv(cloud_cover, F(100)))
            outside_brightness == FMul(midday_bump, cloud_factor)
        IN  FAdd(min_brightness,
                 FMul(outside_brightness, FSub(F(1), min_brightness)))

(* ------------------ detect_brightness_from_webcam ---------------------- *)
\* line 263: the luma of one pixel <<r, g, b>>
Luma(pixel) ==
  FDiv(FAdd(FAdd(FMul(Rat(2126, 10000), F(pixel[1])),
                 FMul(Rat(7152, 10000), F(pixel[2]))),
            FMul(Rat(722, 10000), F(pixel[3]))),
       F(255))

\* lines 255-264: the loop adding up the luma of every pixel
RECURSIVE TotalBrightness(_)
TotalBrightness(pixels) ==
  IF pixels = <<>> THEN F(0)
  ELSE FAdd(TotalBrightness(SubSeq(pixels, 1, Len(pixels) - 1)),
            Luma(pixels[Len(pixels)]))

\* lines 255-270: the brightness of the decoded image
screen_brightness(img, min_brightness) ==
  LET total_brightness == TotalBrightness(img)
      pixel_count == F(Len(img))
      avg_brightness == FDiv(total_brightness, pixel_count)
      clamped_brightness == FClamp(avg_brightness, F(0), F(1))
  IN  FAdd(min_brightness,
           FMul(clamped_brightness, FSub(F(1), min_brightness)))

(* ----------------------- colour temperature ---------------------------- *)
\* line 168: hour() + minute() / 60
LocalHour(h, m) == FAdd(F(h), FDiv(F(m), F(60)))

\* color_temp without the lower end of the window (hour >= 18 - transition_hours)
color_temp_NoWindowStart(hour, a) ==
  IF FGe(hour, F(18)) \/ FLe(hour, F(6))
    THEN [branch |-> "night", progress |-> None, temp |-> a.night_temp]
  ELSE IF FLt(hour, F(18))
    THEN LET progress == FDiv(FSub(F(18), hour), a.transition_hours)
         IN  [branch |-> "transition", progress |-> Some(progress),
              temp |-> FAdd(FMul(a.day_temp, progress),
                            FMul(a.night_temp, FSub(F(1), progress)))]
  ELSE [branch |-> "day", progress |-> None, temp |-> a.day_temp]

\* color_temp with the two weights of the interpolation exchanged
color_temp_SwappedWeights(hour, a) ==
  IF FGe(hour, F(18)) \/ FLe(hour, F(6))
    THEN [branch |-> "night", progress |-> None, temp |-> a.night_temp]
  ELSE IF FGe(hour, FSub(F(18), a.transition_hours)) /\ FLt(hour, F(18))
    THEN LET progress == FDiv(FSub(F(18), hour), a.transition_hours)
         IN  [branch |-> "transition", progress |-> Some(progress),
              temp |-> FAdd(FMul(a.night_temp, progress),
                            FMul(a.day_temp, FSub(F(1), progress)))]
  ELSE [branch |-> "day", progress |-> None, temp |-> a.day_temp]

\* color_temp with the window starting at 18 + transition_hours
color_temp_WindowSign(hour, a) ==
  IF FGe(hour, F(18)) \/ FLe(hour, F(6))
    THEN [branch |-> "night", progress |-> None, temp |-> a.night_temp]
  ELSE IF FGe(hour, FAdd(F(18), a.transition_hours)) /\ FLt(hour, F(18))
    THEN LET progress == FDiv(FSub(F(18), hour), a.transition_hours)
         IN  [branch |-> "transition", progress |-> Some(progress),
              temp |-> FAdd(FMul(a.day_temp, progress),
                            FMul(a.night_temp, FSub(F(1), progress)))]
  ELSE [branch |-> "day", progress |-> None, temp |-> a.day_temp]

\* lines 170-177: the branch taken, the progress computed on line 173 (when
\* the interpolation branch is taken) and the resulting temperature
color_temp(hour, a) ==
  IF FGe(hour, F(18)) \/ FLe(hour, F(6))
    THEN [branch |-> "night", progress |-> None, temp |-> a.night_temp]
  ELSE IF FGe(hour, FSub(F(18), a.transition_hours)) /\ FLt(hour, F(18))
    THEN LET progress == FDiv(FSub(F(18), hour), a.transition_hours)
         IN  [branch |-> "transition", progress |-> Some(progress),
              temp |-> FAdd(FMul(a.day_temp, progress),
                            FMul(a.night_temp, FSub(F(1), progress)))]
  ELSE [branch |-> "day", progress |-> None, temp |-> a.day_temp]

(* --------------------------- temp_to_gamma ----------------------------- *)
\* ln and powf have no exact fraction: a channel is the constant it is set
\* to, or the clamped formula of lines 211, 216, 219, 228 with its argument
Channel(formula, t) == [formula |-> formula, arg |-> t]

\* lines 204-232
temp_to_gamma(temp_k) ==
  LET temp == FDiv(temp_k, F(100))
      red == IF FLe(temp, F(66)) THEN Channel("1.0", F(0))
             ELSE Channel("clamp(1.2929*t^-0.1332)", FSub(temp, F(60)))
      green == IF FLe(temp, F(66)) THEN Channel("clamp(0.3900*ln(t)-0.6318)", temp)
               ELSE Channel("clamp(1.1298*t^-0.0755)", FSub(temp, F(60)))
      blue == IF FGe(temp, F(66)) THEN Channel("1.0", F(0))
              ELSE IF FLe(temp, F(19)) THEN Channel("0.0", F(0))
              ELSE Channel("clamp(0.5432*ln(t)-1.1962)", FSub(temp, F(10)))
  IN  <<red, green, blue>>

(* ------------------------------ format! -------------------------------- *)
\* "{:.3}" of an f64: thousandths, rounded to nearest, ties to even
Fmt3(x) ==
  IF IsNaN(x) THEN [text |-> "NaN", milli |-> 0]
  ELSE IF ~IsFinite(x) THEN [text |-> IF x.n > 0 THEN "inf" ELSE "-inf", milli |-> 0]
  ELSE LET q == (x.n * 1000) \div x.d
           r == (x.n * 1000) % x.d
       IN  [text |-> "decimal",
            milli |-> IF 2 * r > x.d THEN q + 1
                      ELSE IF 2 * r < x.d THEN q
                      ELSE q + (q % 2)]

\* line 186: the gamma argument "{:.3}:{:.3}:{:.3}"
FmtGamma(g) == [i \in 1..3 |-> [fmt3 |-> g[i]]]

(* --------------------------- detect_monitors --------------------------- *)
\* lines 284-292.  The text is a sequence of lines (lines()), a line the
\* sequence of its whitespace-separated tokens (split_whitespace()).
RECURSIVE LastTokens(_)
LastTokens(ls) ==
  IF ls = <<>> THEN <<>>
  ELSE LET line == Head(ls)
       IN  (IF line = <<>> THEN <<>> ELSE <<line[Len(line)]>>)
             \o LastTokens(Tail(ls))

ParseMonitors(output_str) ==
  LastTokens(IF output_str = <<>> THEN <<>> ELSE Tail(output_str))

(* ------------------------------ inputs --------------------------------- *)
\* frames discarded before the measured one (line 245)
WarmupFrames == 5

\* milliseconds of one pacing pause (line 247)
PauseMs == 100

MinBrightnessValues == {F(0), Rat(3, 5), F(1)}

\* <<day_temp, night_temp>>: the defaults, and a day colder than the night
TempPairs == {<<F(6500), F(3500)>>, <<F(3500), F(6500)>>}

TransitionValues == {F(-1), F(0), Rat(1, 2), F(2), F(13)}

MonitorNames == <<"DP-0", "HDMI-0", "eDP-1", "DP-1">>

\* --monitors: the first 1..MaxMonitors outputs
MonitorLists == {SubSeq(MonitorNames, 1, k) : k \in 1..MaxMonitors}

\* the command lines: every schedule with the default min_brightness, and
\* every min_brightness with the default schedule
ArgsSet ==
  {a \in [api_key : {None, Some("KEY")},
          min_brightness : MinBrightnessValues,
          day_temp : {t[1] : t \in TempPairs},
          night_temp : {t[2] : t \in TempPairs},
          transition_hours : TransitionValues,
          monitors : {None} \cup {Some(l) : l \in MonitorLists}] :
     /\ <<a.day_temp, a.night_temp>> \in TempPairs
     /\ \/ a.min_brightness = Rat(3, 5)
        \/ /\ a.day_temp = F(6500)
           /\ a.night_temp = F(3500)
           /\ a.transition_hours = F(2)}

Black == <<0, 0, 0>>

White == <<255, 255, 255>>

Red == <<255, 0, 0>>

\* decoded rasters: 1..MaxPixels pixels
Rasters == UNION {[1..k -> {Black, White, Red}] : k \in 1..MaxPixels}

Locations == {[lat |-> F(50), lon |-> F(14)], [lat |-> F(-33), lon |-> F(151)]}

\* weather payloads with sunrise <= sunset and a cloud cover in [0, 100]
Weathers ==
  {w \in [sunrise : 0..MaxTime, sunset : 0..MaxTime, all : {F(0), F(50), F(100)}] :
     w.sunrise <= w.sunset}

\* local wall-clock times <<hour, minute>> read on line 167
HourSamples ==
  {<<6, 0>>, <<6, 30>>, <<12, 0>>, <<16, 0>>, <<17, 0>>, <<17, 30>>,
   <<18, 0>>, <<23, 59>>}

HeaderLine == <<"Monitors:", "1">>

MonitorLine == <<"0:", "+*DP-0", "1920/527x1080/296+0+0", "DP-0">>

\* stdout of xrandr --listmonitors: nothing, or up to MaxLines lines after
\* the first one
ListOutputs ==
  {<<>>} \cup
  {<<first>> \o rest :
     first \in {HeaderLine, MonitorLine},
     rest \in UNION {[1..k -> {MonitorLine, <<>>}] : k \in 0..MaxLines}}

SinkOutcomes == {"success", "nonzero_status", "spawn_error"}

(* ------------------------------- state --------------------------------- *)
VARIABLES
  args,         \* the parsed command line (line 69)
  pc,           \* the statement main has reached
  calls,        \* the external calls made so far, in order
  inflight,     \* the requests awaited and not yet answered
  i,            \* warm-up frames read (the loop of line 245)
  sleeps,       \* Sleep futures created on line 247
  paused_ms,    \* time the thread has spent pausing between frames
  img,          \* the decoded image (line 251)
  location,     \* the answer of fetch_location (line 85)
  weather_data, \* the answer of fetch_weather (line 89)
  now_ts,       \* Utc::now().timestamp() of compute_brightness (line 131)
  brightness,   \* the brightness handed to set_monitor_brightness
  source,       \* the strategy that produced it
  monitors,     \* the monitors of set_monitor_brightness (line 161)
  hour,         \* the local hour (line 168)
  schedule,     \* the branch, progress and color_temp of lines 170-177
  gamma,        \* the gamma triple (line 179)
  idx,          \* the next monitor of the loop of line 181
  sinkLog,      \* the xrandr --output invocations, with their outcomes
  stderr,       \* the diagnostics printed
  apply_result, \* what set_monitor_brightness returned
  result        \* what main returned

vars ==
  <<args, pc, calls, inflight, i, sleeps, paused_ms, img, location,
    weather_data, now_ts, brightness, source, monitors, hour, schedule, gamma,
    idx, sinkLog, stderr, apply_result, result>>

webcamVars == <<i, sleeps, paused_ms, img>>

fetchVars == <<inflight, location, weather_data, now_ts>>

applyVars == <<monitors, hour, schedule, gamma, idx, sinkLog, apply_result>>

Init ==
  /\ args \in ArgsSet
  /\ pc = "camera_new"
  /\ calls = <<>>
  /\ inflight = {}
  /\ i = 0
  /\ sleeps = 0
  /\ paused_ms = 0
  /\ img = None
  /\ location = None
  /\ weather_data = None
  /\ now_ts = None
  /\ brightness = None
  /\ source = "none"
  /\ monitors = None
  /\ hour = None
  /\ schedule = None
  /\ gamma = None
  /\ idx = 0
  /\ sinkLog = <<>>
  /\ stderr = <<>>
  /\ apply_result = "none"
  /\ result = "running"

(* --------------------------- external calls ---------------------------- *)
\* an entry of calls: the call and how it ended ("pending" while awaited)
Call(name, outcome) == [call |-> name, outcome |-> outcome]

\* the awaited call, the last of calls, has returned
Returned(outcome) == [calls EXCEPT ![Len(calls)].outcome = outcome]

(* -------------------- detect_brightness_from_webcam -------------------- *)
\* a `?` of lines 236-253 returns Err (the image, if any, is dropped): main
\* takes the arm of line 78
WebcamErr(call) ==
  /\ calls' = Append(calls, Call(call, "err"))
  /\ pc' = "fallback"
  /\ stderr' = Append(stderr, "Webcam not available")
  /\ img' = None
  /\ UNCHANGED <<args, i, sleeps, paused_ms, brightness, source, result>>
  /\ UNCHANGED fetchVars
  /\ UNCHANGED applyVars

\* lines 236-241
CameraNew ==
  /\ pc = "camera_new"
  /\ \/ /\ calls' = Append(calls, Call("Camera::new", "ok"))
        /\ pc' = "open_stream"
        /\ UNCHANGED <<args, brightness, source, stderr, result>>
        /\ UNCHANGED webcamVars
        /\ UNCHANGED fetchVars
        /\ UNCHANGED applyVars
     \/ WebcamErr("Camera::new")

\* line 243
OpenStream ==
  /\ pc = "open_stream"
  /\ \/ /\ calls' = Append(calls, Call("open_stream", "ok"))
        /\ pc' = "warmup"
        /\ UNCHANGED <<args, brightness, source, stderr, result>>
        /\ UNCHANGED webcamVars
        /\ UNCHANGED fetchVars
        /\ UNCHANGED applyVars
     \/ WebcamErr("open_stream")

\* lines 245-248: one turn of the warm-up loop.  sleep is tokio::time::sleep
\* (line 7): the call builds a Sleep future that is never awaited, so the
\* thread does not pause
WarmupFrame ==
  /\ pc = "warmup"
  /\ \/ /\ calls' = Append(calls, Call("frame", "ok"))
        /\ i' = i + 1
        /\ sleeps' = sleeps + 1
        /\ paused_ms' = paused_ms
        /\ pc' = IF i + 1 < WarmupFrames THEN "warmup" ELSE "frame"
        /\ UNCHANGED <<args, img, brightness, source, stderr, result>>
        /\ UNCHANGED fetchVars
        /\ UNCHANGED applyVars
     \/ WebcamErr("frame")

\* line 250
MeasureFrame ==
  /\ pc = "frame"
  /\ \/ /\ calls' = Append(calls, Call("frame", "ok"))
        /\ pc' = "decode"
        /\ UNCHANGED <<args, brightness, source, stderr, result>>
        /\ UNCHANGED webcamVars
        /\ UNCHANGED fetchVars
        /\ UNCHANGED applyVars
     \/ WebcamErr("frame")

\* line 251
DecodeImage ==
  /\ pc = "decode"
  /\ \/ /\ \E raster \in Rasters : img' = Some(raster)
        /\ calls' = Append(calls, Call("decode_image", "ok"))
        /\ pc' = "stop_stream"
        /\ UNCHANGED <<args, i, sleeps, paused_ms, brightness, source, stderr, result>>
        /\ UNCHANGED fetchVars
        /\ UNCHANGED applyVars
     \/ WebcamErr("decode_image")

\* lines 253-270, and the Ok arm of line 73
StopStream ==
  /\ pc = "stop_stream"
  /\ \/ /\ calls' = Append(calls, Call("stop_stream", "ok"))
        /\ brightness' = Some(screen_brightness(img[1], args.min_brightness))
        /\ source' = "webcam"
        /\ img' = None
        /\ pc' = "apply"
        /\ UNCHANGED <<args, i, sleeps, paused_ms, stderr, result>>
        /\ UNCHANGED fetchVars
        /\ UNCHANGED applyVars
     \/ WebcamErr("stop_stream")

(* -------------------------------- main --------------------------------- *)
\* Fallback without the check of the key
Fallback_NoKeyCheck ==
  /\ pc = "fallback"
  /\ result' = result
  /\ pc' = "fetch_location"
  /\ UNCHANGED <<args, calls, brightness, source, stderr>>
  /\ UNCHANGED webcamVars
  /\ UNCHANGED fetchVars
  /\ UNCHANGED applyVars

\* lines 78-82: the Err arm; `?` on the missing key returns from main
Fallback ==
  /\ pc = "fallback"
  /\ IF args.api_key = None
       THEN /\ result' = "Err(MissingCredential)"
            /\ pc' = "done"
       ELSE /\ result' = result
            /\ pc' = "fetch_location"
  /\ UNCHANGED <<args, calls, brightness, source, stderr>>
  /\ UNCHANGED webcamVars
  /\ UNCHANGED fetchVars
  /\ UNCHANGED applyVars

\* lines 85, 121-123: the request is sent and awaited
FetchLocationCall ==
  /\ pc = "fetch_location"
  /\ calls' = Append(calls, Call("fetch_location", "pending"))
  /\ inflight' = inflight \cup {[call |-> "fetch_location", url |-> <<"http://ip-api.com/json">>]}
  /\ pc' = "await_location"
  /\ UNCHANGED <<args, location, weather_data, now_ts, brightness, source, stderr, result>>
  /\ UNCHANGED webcamVars
  /\ UNCHANGED applyVars

\* FetchLocationReturn going on with a default location after a failure
FetchLocationReturn_DefaultOnErr ==
  /\ pc = "await_location"
  /\ \E req \in inflight :
       /\ req.call = "fetch_location"
       /\ inflight' = inflight \ {req}
  /\ \/ /\ \E loc \in Locations : location' = Some(loc)
        /\ calls' = Returned("ok")
     \/ /\ location' = Some([lat |-> F(0), lon |-> F(0)])
        /\ calls' = Returned("err")
  /\ pc' = "fetch_weather"
  /\ UNCHANGED <<args, weather_data, now_ts, brightness, source, stderr, result>>
  /\ UNCHANGED webcamVars
  /\ UNCHANGED applyVars

\* lines 123-124 and the `?` of line 85: the answer, or main returns the error
FetchLocationReturn ==
  /\ pc = "await_location"
  /\ \E req \in inflight :
       /\ req.call = "fetch_location"
       /\ inflight' = inflight \ {req}
  /\ \/ /\ \E loc \in Locations : location' = Some(loc)
        /\ calls' = Returned("ok")
        /\ pc' = "fetch_weather"
        /\ result' = result
     \/ /\ \E e \in {"NetworkFailure", "ParseFailure"} : result' = "Err(" \o e \o ")"
        /\ calls' = Returned("err")
        /\ pc' = "done"
        /\ location' = location
  /\ UNCHANGED <<args, weather_data, now_ts, brightness, source, stderr>>
  /\ UNCHANGED webcamVars
  /\ UNCHANGED applyVars

\* f64::to_string (lines 86-87)
Display(x) == [display |-> x]

\* lines 86-89, 112-117: the url is built from the location and the key
FetchWeatherCall ==
  /\ pc = "fetch_weather"
  /\ calls' = Append(calls, Call("fetch_weather", "pending"))
  /\ inflight' = inflight \cup
       {[call |-> "fetch_weather",
         url |-> <<"https://api.openweathermap.org/data/2.5/weather",
                   Display(location[1].lat), Display(location[1].lon),
                   args.api_key[1]>>]}
  /\ location' = None
  /\ pc' = "await_weather"
  /\ UNCHANGED <<args, weather_data, now_ts, brightness, source, stderr, result>>
  /\ UNCHANGED webcamVars
  /\ UNCHANGED applyVars

\* FetchWeatherReturn applying min_brightness after a failure
FetchWeatherReturn_DefaultOnErr ==
  /\ pc = "await_weather"
  /\ \E req \in inflight :
       /\ req.call = "fetch_weather"
       /\ inflight' = inflight \ {req}
  /\ \/ /\ \E w \in Weathers : weather_data' = Some(w)
        /\ calls' = Returned("ok")
        /\ pc' = "compute"
        /\ UNCHANGED <<stderr, brightness, source>>
     \/ /\ stderr' = Append(stderr, "Failed to fetch weather data")
        /\ calls' = Returned("err")
        /\ brightness' = Some(args.min_brightness)
        /\ source' = "weather"
        /\ pc' = "apply"
        /\ weather_data' = weather_data
  /\ UNCHANGED <<args, location, now_ts, result>>
  /\ UNCHANGED webcamVars
  /\ UNCHANGED applyVars

\* lines 117-118 and the match of lines 89-99
FetchWeatherReturn ==
  /\ pc = "await_weather"
  /\ \E req \in inflight :
       /\ req.call = "fetch_weather"
       /\ inflight' = inflight \ {req}
  /\ \/ /\ \E w \in Weathers : weather_data' = Some(w)
        /\ calls' = Returned("ok")
        /\ pc' = "compute"
        /\ UNCHANGED <<stderr, result>>
     \/ /\ stderr' = Append(stderr, "Failed to fetch weather data")
        /\ calls' = Returned("err")
        /\ result' = "Ok"
        /\ pc' = "done"
        /\ weather_data' = weather_data
  /\ UNCHANGED <<args, location, now_ts, brightness, source>>
  /\ UNCHANGED webcamVars
  /\ UNCHANGED applyVars

\* line 91: compute_brightness reads the clock
ComputeBrightness ==
  /\ pc = "compute"
  /\ \E t \in 0..MaxTime :
       /\ now_ts' = Some(t)
       /\ brightness' = Some(compute_brightness(weather_data[1], args.min_brightness, t))
  /\ source' = "weather"
  /\ pc' = "apply"
  /\ UNCHANGED <<args, calls, inflight, location, weather_data, stderr, result>>
  /\ UNCHANGED webcamVars
  /\ UNCHANGED applyVars

(* ----------------------- set_monitor_brightness ------------------------ *)
\* set_monitor_brightness returns Err: lines 74-76 and 92-94 print it, and
\* main returns Ok (line 103)
ApplyErr(e) ==
  /\ apply_result' = "Err(" \o e \o ")"
  /\ stderr' = Append(stderr, "Failed to set brightness")
  /\ result' = "Ok"
  /\ pc' = "done"
  /\ monitors' = monitors

\* line 162: the explicit list.  The weather answer is not used after line 91
ExplicitMonitors ==
  /\ pc = "apply"
  /\ args.monitors # None
  /\ monitors' = Some(args.monitors[1])
  /\ pc' = "schedule"
  /\ weather_data' = None
  /\ now_ts' = None
  /\ UNCHANGED <<args, calls, inflight, location, brightness, source, stderr, result>>
  /\ UNCHANGED <<hour, schedule, gamma, idx, sinkLog, apply_result>>
  /\ UNCHANGED webcamVars

\* DetectMonitors without the check of lines 294-296
DetectMonitors_NoEmptyCheck ==
  /\ pc = "apply"
  /\ args.monitors = None
  /\ \/ /\ \E e \in {"spawn_error", "nonzero_status", "invalid_utf8"} : ApplyErr(e)
        /\ calls' = Append(calls, Call("xrandr --listmonitors", "err"))
     \/ /\ \E output_str \in ListOutputs : monitors' = Some(ParseMonitors(output_str))
        /\ pc' = "schedule"
        /\ UNCHANGED <<apply_result, stderr, result>>
        /\ calls' = Append(calls, Call("xrandr --listmonitors", "ok"))
  /\ weather_data' = None
  /\ now_ts' = None
  /\ UNCHANGED <<args, inflight, location, brightness, source>>
  /\ UNCHANGED <<hour, schedule, gamma, idx, sinkLog>>
  /\ UNCHANGED webcamVars

\* lines 163, 274-299: detect_monitors
DetectMonitors ==
  /\ pc = "apply"
  /\ args.monitors = None
  /\ \/ /\ \E e \in {"spawn_error", "nonzero_status", "invalid_utf8"} : ApplyErr(e)
        /\ calls' = Append(calls, Call("xrandr --listmonitors", "err"))
     \/ /\ \E output_str \in ListOutputs :
             LET found == ParseMonitors(output_str)
             IN  IF found = <<>>
                   THEN ApplyErr("NoMonitorsFound")
                   ELSE /\ monitors' = Some(found)
                        /\ pc' = "schedule"
                        /\ UNCHANGED <<apply_result, stderr, result>>
        /\ calls' = Append(calls, Call("xrandr --listmonitors", "ok"))
  /\ weather_data' = None
  /\ now_ts' = None
  /\ UNCHANGED <<args, inflight, location, brightness, source>>
  /\ UNCHANGED <<hour, schedule, gamma, idx, sinkLog>>
  /\ UNCHANGED webcamVars

\* lines 166-179: the clock is read, the temperature and the gamma computed
Schedule ==
  /\ pc = "schedule"
  /\ \E hm \in HourSamples :
       LET h == LocalHour(hm[1], hm[2])
           s == color_temp(h, args)
       IN  /\ hour' = Some(h)
           /\ schedule' = Some(s)
           /\ gamma' = Some(temp_to_gamma(s.temp))
  /\ idx' = 1
  /\ pc' = "loop"
  /\ UNCHANGED <<args, calls, brightness, source, monitors, sinkLog, stderr,
                 apply_result, result>>
  /\ UNCHANGED webcamVars
  /\ UNCHANGED fetchVars

\* InvokeSink returning the error of a failed invocation
InvokeSink_AbortOnFailure ==
  /\ pc = "loop"
  /\ idx <= Len(monitors[1])
  /\ \E outcome \in SinkOutcomes :
       /\ sinkLog' = Append(sinkLog,
            [output |-> monitors[1][idx],
             brightness |-> Fmt3(brightness[1]),
             gamma |-> FmtGamma(gamma[1]),
             outcome |-> outcome])
       /\ calls' = Append(calls, Call("xrandr --output",
                                      IF outcome = "success" THEN "ok" ELSE "err"))
       /\ IF outcome = "success"
            THEN UNCHANGED <<pc, stderr, apply_result, result>>
            ELSE /\ apply_result' = "Err(" \o outcome \o ")"
                 /\ stderr' = Append(stderr, "Failed to set brightness")
                 /\ result' = "Ok"
                 /\ pc' = "done"
  /\ idx' = idx + 1
  /\ UNCHANGED <<args, brightness, source, monitors, hour, schedule, gamma>>
  /\ UNCHANGED webcamVars
  /\ UNCHANGED fetchVars

\* lines 181-198: one turn of the loop; a failure is printed and the loop
\* goes on
InvokeSink ==
  /\ pc = "loop"
  /\ idx <= Len(monitors[1])
  /\ \E outcome \in SinkOutcomes :
       /\ sinkLog' = Append(sinkLog,
            [output |-> monitors[1][idx],
             brightness |-> Fmt3(brightness[1]),
             gamma |-> FmtGamma(gamma[1]),
             outcome |-> outcome])
       /\ stderr' = IF outcome = "success" THEN stderr
                    ELSE Append(stderr, "Failed to set brightness/gamma for "
                                          \o monitors[1][idx])
       /\ calls' = Append(calls, Call("xrandr --output",
                                      IF outcome = "success" THEN "ok" ELSE "err"))
  /\ idx' = idx + 1
  /\ UNCHANGED <<args, pc, brightness, source, monitors, hour, schedule, gamma,
                 apply_result, result>>
  /\ UNCHANGED webcamVars
  /\ UNCHANGED fetchVars

\* line 200, then line 103
ApplyReturn ==
  /\ pc = "loop"
  /\ idx > Len(monitors[1])
  /\ apply_result' = "Ok"
  /\ result' = "Ok"
  /\ pc' = "done"
  /\ UNCHANGED <<args, calls, brightness, source, monitors, hour, schedule, gamma,
                 idx, sinkLog, stderr>>
  /\ UNCHANGED webcamVars
  /\ UNCHANGED fetchVars

Next ==
  \/ CameraNew
  \/ OpenStream
  \/ WarmupFrame
  \/ MeasureFrame
  \/ DecodeImage
  \/ StopStream
  \/ Fallback
  \/ FetchLocationCall
  \/ FetchLocationReturn
  \/ FetchWeatherCall
  \/ FetchWeatherReturn
  \/ ComputeBrightness
  \/ ExplicitMonitors
  \/ DetectMonitors
  \/ Schedule
  \/ InvokeSink
  \/ ApplyReturn

Spec == Init /\ [][Next]_vars

(* ----------------------------- properties ------------------------------ *)
Made(name) == \E k \in 1..Len(calls) : calls[k].call = name

Count(name) == Cardinality({k \in 1..Len(calls) : calls[k].call = name})

Failed(name) ==
  \E k \in 1..Len(calls) : calls[k].call = name /\ calls[k].outcome = "err"

Succeeded(name) ==
  \E k \in 1..Len(calls) : calls[k].call = name /\ calls[k].outcome = "ok"

WebcamCalls == {"Camera::new", "open_stream", "frame", "decode_image", "stop_stream"}

\* detect_brightness_from_webcam returned Err
WebcamFailed == \E name \in WebcamCalls : Failed(name)

\* set_monitor_brightness has been called
ApplyEntered ==
  \/ pc \in {"schedule", "loop"}
  \/ apply_result # "none"
  \/ Made("xrandr --listmonitors")
  \/ Made("xrandr --output")

Min(a, b) == IF a < b THEN a ELSE b

\* C1: when the webcam estimator fails and no api key is configured, the run
\* can only end with the MissingCredential error, and it makes no location
\* fetch, no weather fetch, no monitor enumeration and no xrandr --output
\* invocation.
C1_MissingCredential ==
  (WebcamFailed /\ args.api_key = None) =>
    /\ pc \in {"fallback", "done"}
    /\ pc = "done" => result = "Err(MissingCredential)"
    /\ ~Made("fetch_location")
    /\ ~Made("fetch_weather")
    /\ ~Made("xrandr --listmonitors")
    /\ ~Made("xrandr --output")
    /\ sinkLog = <<>>
    /\ ~ApplyEntered

C1_Witness ==
  /\ pc = "done"
  /\ WebcamFailed
  /\ args.api_key = None
  /\ result = "Err(MissingCredential)"

\* C2: the external calls follow the fallback order: the webcam is tried
\* first, the location is fetched only after the webcam failed, the weather
\* only after the location fetch succeeded, the apply phase is entered only
\* with a brightness; after a webcam estimate no fetch is ever made; and at
\* most one call is outstanding, which is then the last call made.
C2_FallbackOrder ==
  /\ calls # <<>> => calls[1].call = "Camera::new"
  /\ Made("fetch_location") => WebcamFailed
  /\ Made("fetch_weather") => Succeeded("fetch_location")
  /\ (pc = "apply" \/ ApplyEntered) => brightness # None
  /\ source = "webcam" => ~Made("fetch_location") /\ ~Made("fetch_weather")
  /\ Succeeded("stop_stream") => ~Made("fetch_location") /\ ~Made("fetch_weather")
  /\ Cardinality(inflight) <= 1
  /\ \A k \in 1..Len(calls) :
       calls[k].outcome = "pending" =>
         /\ k = Len(calls)
         /\ \E req \in inflight : req.call = calls[k].call
  /\ inflight # {} => calls # <<>> /\ calls[Len(calls)].outcome = "pending"

C2_Witness ==
  /\ pc = "loop"
  /\ source = "weather"
  /\ Succeeded("fetch_location")
  /\ Succeeded("fetch_weather")
  /\ Made("xrandr --output")

\* C3: when the location fetch or the weather fetch fails, the run ends with
\* no xrandr --output invocation: set_monitor_brightness is never entered and
\* no brightness is applied.
C3_FetchFailureAppliesNothing ==
  (Failed("fetch_location") \/ Failed("fetch_weather")) =>
    /\ pc = "done"
    /\ sinkLog = <<>>
    /\ ~ApplyEntered
    /\ brightness = None
    /\ ~Made("xrandr --output")

C3_Witness ==
  /\ pc = "done"
  /\ Failed("fetch_weather")
  /\ result = "Ok"
  /\ sinkLog = <<>>

\* C4: with the monitor list m1..mn, xrandr --output is invoked once per
\* monitor, in list order, each time with the same brightness and the same
\* gamma triple, whatever the earlier invocations returned; after the loop
\* every monitor has been invoked and set_monitor_brightness returns Ok.
C4_OncePerMonitor ==
  (monitors # None /\ schedule # None) =>
    LET b == Fmt3(brightness[1])
        g == FmtGamma(temp_to_gamma(schedule[1].temp))
    IN  /\ Len(sinkLog) <= Len(monitors[1])
        /\ \A k \in 1..Len(sinkLog) :
             /\ sinkLog[k].output = monitors[1][k]
             /\ sinkLog[k].brightness = b
             /\ sinkLog[k].gamma = g
        /\ pc = "loop" => Len(sinkLog) = idx - 1
        /\ pc = "done" =>
             /\ Len(sinkLog) = Len(monitors[1])
             /\ apply_result = "Ok"
             /\ result = "Ok"
        /\ Count("xrandr --output") = Len(sinkLog)

C4_Witness ==
  /\ pc = "done"
  /\ apply_result = "Ok"
  /\ Len(sinkLog) >= 2
  /\ sinkLog[1].outcome = "spawn_error"
  /\ sinkLog[2].outcome = "nonzero_status"

\* C5: every brightness that reaches the apply phase lies in
\* [min_brightness, 1.0], and outside [sunrise, sunset] the weather result is
\* exactly min_brightness.
C5_BrightnessInRange ==
  brightness # None =>
    /\ FLe(args.min_brightness, brightness[1])
    /\ FLe(brightness[1], F(1))
    /\ (source = "weather" /\ weather_data # None
          /\ (now_ts[1] < weather_data[1].sunrise \/ now_ts[1] > weather_data[1].sunset))
         => brightness[1] = args.min_brightness

C7_Case ==
  /\ schedule # None
  /\ FLt(F(0), args.transition_hours)
  /\ FLt(args.transition_hours, F(12))
  /\ FGe(args.day_temp, args.night_temp)

\* night_temp for hour >= 18 or hour <= 6, day_temp for
\* 6 < hour <= 18 - transition_hours, and no rise over
\* [18 - transition_hours, 18]
C7_Shape ==
  LET h == hour[1]
      start == FSub(F(18), args.transition_hours)
      t == schedule[1].temp
  IN  /\ (FGe(h, F(18)) \/ FLe(h, F(6))) => t = args.night_temp
      /\ (FLt(F(6), h) /\ FLt(h, start)) => t = args.day_temp
      /\ h = start => t = args.day_temp
      /\ (FLe(start, h) /\ FLe(h, F(18))) =>
           \A hm \in HourSamples :
             LET h2 == LocalHour(hm[1], hm[2])
             IN  (FLe(h, h2) /\ FLe(h2, F(18))) =>
                   FGe(t, color_temp(h2, args).temp)

\* the example of C7 with day 6500, night 3500 and 2 transition hours:
\* 6500 at hour 16, `mid` at hour 17, 3500 at hour 18
C7_Example(mid) ==
  (args.day_temp = F(6500) /\ args.night_temp = F(3500)
     /\ args.transition_hours = F(2)) =>
    /\ hour[1] = F(16) => schedule[1].temp = F(6500)
    /\ hour[1] = F(17) => schedule[1].temp = F(mid)
    /\ hour[1] = F(18) => schedule[1].temp = F(3500)

C8_WarmupPacing ==
  /\ (pc \in {"decode", "stop_stream"} \/ source = "webcam") =>
       /\ i = WarmupFrames
       /\ Count("frame") = WarmupFrames + 1
  /\ Count("frame") >= 1 =>
       paused_ms >= PauseMs * Min(Count("frame") - 1, WarmupFrames)
  /\ WebcamFailed => source # "webcam"

\* C9: with an explicit monitor list the enumeration is never invoked and
\* the list is used; without one the enumeration is invoked exactly once,
\* and when it fails or yields no names set_monitor_brightness ends with an
\* error and no xrandr --output invocation, never as a successful no-op.
C9_MonitorSource ==
  /\ args.monitors # None =>
       /\ ~Made("xrandr --listmonitors")
       /\ monitors # None => monitors = args.monitors
  /\ args.monitors = None =>
       /\ Count("xrandr --listmonitors") <= 1
       /\ (pc \in {"schedule", "loop"} \/ apply_result # "none") =>
            Count("xrandr --listmonitors") = 1
       /\ Failed("xrandr --listmonitors") =>
            /\ apply_result \in {"Err(spawn_error)", "Err(nonzero_status)", "Err(invalid_utf8)"}
            /\ sinkLog = <<>>
            /\ pc = "done"
       /\ (Succeeded("xrandr --listmonitors") /\ monitors = None) =>
            /\ apply_result = "Err(NoMonitorsFound)"
            /\ sinkLog = <<>>
            /\ pc = "done"
       /\ monitors # None => monitors[1] # <<>>
       /\ apply_result = "Ok" => sinkLog # <<>>

C9_Witness ==
  /\ args.monitors = None
  /\ pc = "done"
  /\ apply_result = "Err(NoMonitorsFound)"
  /\ Count("xrandr --listmonitors") = 1
  /\ sinkLog = <<>>

\* C10: with transition_hours <= 0 the interpolation branch is never taken,
\* so nothing is divided by transition_hours: the temperature is night_temp
\* when hour >= 18 or hour <= 6 and day_temp otherwise.
C10_NoDivisionWithoutTransition ==
  (schedule # None /\ FLe(args.transition_hours, F(0))) =>
    /\ schedule[1].branch # "transition"
    /\ schedule[1].progress = None
    /\ schedule[1].temp =
         IF FGe(hour[1], F(18)) \/ FLe(hour[1], F(6))
           THEN args.night_temp ELSE args.day_temp

C10_Witness ==
  /\ schedule # None
  /\ args.transition_hours = F(0)
  /\ hour = Some(Rat(35, 2))
  /\ schedule[1].branch = "day"

====
